---- MODULE Spec2Model ----
(***************************************************************************)
(* A model of binance_bot_lab: src/client.py (BinanceClient, the process-  *)
(* wide exchange-info cache) and src/trading_bots.py (GridBot and          *)
(* FuturesGridBot).                                                        *)
(*                                                                         *)
(* Numbers.  The program computes with Python floats.  The model computes  *)
(* with exact numbers: prices, quantities and invested amounts are         *)
(* integers, tick_size is a positive integer number of price units, the    *)
(* maintenance margin rate is an integer number of 1/RateScale, and the    *)
(* liquidation price, a quotient, is a fraction [n, d] with d > 0.  The    *)
(* rounding error of binary floating point is outside the model.           *)
(*                                                                         *)
(* Scope.  The asset pair is one the exchange lists, so get_tick_size and  *)
(* get_step_size find their filters; liquidation_price is called with an   *)
(* explicit price; initial_position_size and initial_margin_required,      *)
(* which change no state, are left out.                                    *)
(***************************************************************************)
EXTENDS Integers, Sequences, FiniteSets, TLC

VARIABLES
    EXCHANGE_INFO,  \* BinanceClient._EXCHANGE_INFO: None or the fetched snapshot
    fetches,        \* number of remote get_exchange_info() requests performed
    remote,         \* what the exchange answers: [tickSize, stepSize]
    threads,        \* per caller of BinanceClient: position inside a classmethod
    bots,           \* the bot instances: BotIds -> None or the instance's fields
    classMMR,       \* class attribute FuturesGridBot._MAINTENANCE_MARGIN_RATE
    last,           \* the last completed call: operation, arguments, outcome
    dl              \* frame of a running deleverage_price_boundary call

vars == <<EXCHANGE_INFO, fetches, remote, threads, bots, classMMR, last, dl>>

None == "None"

\* `cls._EXCHANGE_INFO is None`, and a bot id no instance is bound to.
NoInfo == [cls |-> "NoneType"]

NoBot == [cls |-> "NoneType"]

(***************************************************************************)
(* Bounds of the model.                                                    *)
(***************************************************************************)
MaxGrid == 3        \* grid_number ranges over 1..MaxGrid
MaxPrice == 5       \* lower_price, upper_price, entry_price range over 1..MaxPrice
MaxTick == 2        \* tick_size ranges over 1..MaxTick
MaxQty == 2         \* qty_per_order ranges over 1..MaxQty
MaxInvest == 4      \* invested_amount ranges over 0..MaxInvest
MaxCalls == 2       \* classmethod calls each caller of BinanceClient makes

(***************************************************************************)
(* Program constants.                                                      *)
(***************************************************************************)
MIN_LEVERAGE == 1
MAX_LEVERAGE == 125
RateScale == 1000               \* rates are counted in thousandths
DEFAULT_MMR == 4                \* 0.004, in thousandths

BotIds == {"a", "b"}
ThreadIds == {"t1", "t2"}
Modes == {"arithmetic", "geometric"}

(***************************************************************************)
(* Arithmetic helpers.                                                     *)
(***************************************************************************)
RECURSIVE Pow(_, _)
Pow(x, n) == IF n = 0 THEN 1 ELSE x * Pow(x, n - 1)

Abs(x) == IF x < 0 THEN -x ELSE x

\* price // tick_size * tick_size for a price num/den (floats' floor division).
FloorToTick(num, den, tick) == (num \div (den * tick)) * tick

(***************************************************************************)
(* BinanceClient: the three classmethods share one check-then-fetch idiom. *)
(***************************************************************************)
\* cls._CLIENT.get_exchange_info(): one remote request, answering a snapshot.
Snapshot(n) == [cls |-> "dict", tickSize |-> remote.tickSize, stepSize |-> remote.stepSize, fetch |-> n]

\* The cache after `if cls._EXCHANGE_INFO is None: cls._EXCHANGE_INFO = fetch()`
\* run by a single caller without interleaving.
CacheAfterLookup == IF EXCHANGE_INFO = NoInfo THEN Snapshot(fetches + 1) ELSE EXCHANGE_INFO

FetchesAfterLookup == IF EXCHANGE_INFO = NoInfo THEN fetches + 1 ELSE fetches

(***************************************************************************)
(* GridBot._generate_grid_levels                                           *)
(***************************************************************************)
\* Level i (0-based, i < grid_number) in arithmetic mode:
\* lower + i * (upper - lower) / grid_number, floored to the tick.
ArithmeticLevel(lower, upper, n, tick, i) ==
    FloorToTick(lower * n + i * (upper - lower), n, tick)

\* Level i in geometric mode: lower * ((upper/lower) ** (1/n)) ** i floored to
\* the tick, i.e. the largest multiple k*tick with (k*tick)^n <= lower^(n-i) * upper^i.
GeometricLevel(lower, upper, n, tick, i) ==
    LET target == Pow(lower, n - i) * Pow(upper, i)
        k == CHOOSE k \in 0..upper :
                /\ Pow(k * tick, n) <= target
                /\ Pow((k + 1) * tick, n) > target
    IN  k * tick

GenerateGridLevels(lower, upper, n, tick, mode) ==
    [i \in 1..n |->
        IF mode = "arithmetic"
        THEN ArithmeticLevel(lower, upper, n, tick, i - 1)
        ELSE GeometricLevel(lower, upper, n, tick, i - 1)]
    \o <<upper>>

(***************************************************************************)
(* GridBot.closest_grid_level and GridBot.order_count                      *)
(***************************************************************************)
\* np.argmin(np.abs(levels - price)): the first index of a minimal distance.
ClosestGridLevel(levels, price) ==
    LET i == CHOOSE i \in 1..Len(levels) :
                /\ \A j \in 1..Len(levels) : Abs(levels[i] - price) <= Abs(levels[j] - price)
                /\ \A j \in 1..(i - 1) : Abs(levels[j] - price) > Abs(levels[i] - price)
    IN  levels[i]

\* sum(price > level for level in levels[1..n])
RECURSIVE SumBelow(_, _, _)
SumBelow(levels, price, n) ==
    IF n = 0 THEN 0
    ELSE SumBelow(levels, price, n - 1) + (IF price > levels[n] THEN 1 ELSE 0)

\* sum(price < level for level in levels[1..n])
RECURSIVE SumAbove(_, _, _)
SumAbove(levels, price, n) ==
    IF n = 0 THEN 0
    ELSE SumAbove(levels, price, n - 1) + (IF price < levels[n] THEN 1 ELSE 0)

\* A count that takes a level equal to the price for a buy.
BuyCountInclusive(levels, price) ==
    Cardinality({i \in 1..Len(levels) : price >= levels[i]})

BuyCount(levels, price) == SumBelow(levels, price, Len(levels))

SellCount(levels, price) == SumAbove(levels, price, Len(levels))

OrderCountResult(levels, price, align) ==
    LET used == IF align THEN ClosestGridLevel(levels, price) ELSE price
    IN  [price |-> used, buy |-> BuyCount(levels, used), sell |-> SellCount(levels, used)]

(***************************************************************************)
(* Construction                                                            *)
(***************************************************************************)
\* GridBot.__init__: stores the configuration, looks up tick and step size
\* (populating the exchange-info cache when it is empty), generates the levels.
NewGridBot(n, entry, lower, upper, qty, mode, info) ==
    [cls |-> "GridBot", grid_number |-> n, entry_price |-> entry,
     lower_price |-> lower, upper_price |-> upper, qty_per_order |-> qty,
     mode |-> mode, tick_size |-> info.tickSize, step_size |-> info.stepSize,
     grid_levels |-> GenerateGridLevels(lower, upper, n, info.tickSize, mode)]

Idle == [pc |-> "idle"]

NoCall == [op |-> "none"]

ConstructGridBot(b, n, entry, lower, upper, qty, mode) ==
    /\ bots[b] = NoBot
    /\ EXCHANGE_INFO' = CacheAfterLookup
    /\ fetches' = FetchesAfterLookup
    /\ bots' = [bots EXCEPT ![b] = NewGridBot(n, entry, lower, upper, qty, mode, CacheAfterLookup)]
    /\ last' = [op |-> "GridBot", bot |-> b]
    /\ UNCHANGED <<remote, threads, classMMR, dl>>

OrderCount(b, price, align) ==
    /\ bots[b] # NoBot
    /\ last' = [op |-> "order_count", bot |-> b, arg |-> price, align |-> align,
                result |-> OrderCountResult(bots[b].grid_levels, price, align)]
    /\ UNCHANGED <<EXCHANGE_INFO, fetches, remote, threads, bots, classMMR, dl>>

(***************************************************************************)
(* Exact fractions [n, d], d > 0, for the quotient liquidation_price       *)
(* returns.  A fraction with d = 0 stands for no number.                   *)
(***************************************************************************)
Frac(n, d) == IF d < 0 THEN [n |-> -n, d |-> -d] ELSE [n |-> n, d |-> d]

Raised == [n |-> 0, d |-> 0]

IsRaised(x) == x.d = 0

FLess(a, b) == a.n * b.d < b.n * a.d

(***************************************************************************)
(* FuturesGridBot                                                          *)
(***************************************************************************)
\* FuturesGridBot.__init__: GridBot.__init__ in the default arithmetic mode,
\* then `self.leverage = leverage`.  No instance attribute for the margin rate.
NewFuturesGridBot(n, entry, lower, upper, qty, lev, info) ==
    [cls |-> "FuturesGridBot", grid_number |-> n, entry_price |-> entry,
     lower_price |-> lower, upper_price |-> upper, qty_per_order |-> qty,
     mode |-> "arithmetic", tick_size |-> info.tickSize, step_size |-> info.stepSize,
     grid_levels |-> GenerateGridLevels(lower, upper, n, info.tickSize, "arithmetic"),
     leverage |-> lev, inst_mmr |-> <<>>]

ConstructFuturesGridBot(b, n, entry, lower, upper, qty, lev) ==
    /\ bots[b] = NoBot
    /\ dl.pc = "idle"
    /\ EXCHANGE_INFO' = CacheAfterLookup
    /\ fetches' = FetchesAfterLookup
    /\ bots' = [bots EXCEPT ![b] = NewFuturesGridBot(n, entry, lower, upper, qty, lev, CacheAfterLookup)]
    /\ last' = [op |-> "FuturesGridBot", bot |-> b]
    /\ UNCHANGED <<remote, threads, classMMR, dl>>

\* self._MAINTENANCE_MARGIN_RATE as an attribute lookup: the instance's own
\* attribute when set_maintenance_margin_rate has bound one, else the class's.
MaintenanceMarginRate(bot) ==
    IF bot.inst_mmr = <<>> THEN classMMR ELSE bot.inst_mmr[1]

LeverageRejected(lev) == lev < MIN_LEVERAGE \/ lev > MAX_LEVERAGE

SetLeverage(b, lev) ==
    /\ bots[b] # NoBot /\ bots[b].cls = "FuturesGridBot"
    /\ dl.pc = "idle"
    /\ IF LeverageRejected(lev)
       THEN /\ bots' = bots
            /\ last' = [op |-> "set_leverage", bot |-> b, arg |-> lev, outcome |-> "ValueError"]
       ELSE /\ bots' = [bots EXCEPT ![b].leverage = lev]
            /\ last' = [op |-> "set_leverage", bot |-> b, arg |-> lev, outcome |-> "ok"]
    /\ UNCHANGED <<EXCHANGE_INFO, fetches, remote, threads, classMMR, dl>>

\* A store of the rate on the class instead of on the instance.
StoreRateOnClass(b, rate) == [bots |-> bots, cls |-> rate]

\* `self._MAINTENANCE_MARGIN_RATE = rate` binds an attribute of the instance.
StoreRate(b, rate) == [bots |-> [bots EXCEPT ![b].inst_mmr = <<rate>>], cls |-> classMMR]

SetMaintenanceMarginRate(b, rate) ==
    /\ bots[b] # NoBot /\ bots[b].cls = "FuturesGridBot"
    /\ dl.pc = "idle"
    /\ IF rate < 0
       THEN /\ bots' = bots
            /\ classMMR' = classMMR
            /\ last' = [op |-> "set_maintenance_margin_rate", bot |-> b, arg |-> rate,
                        outcome |-> "ValueError"]
       ELSE /\ bots' = StoreRate(b, rate).bots
            /\ classMMR' = StoreRate(b, rate).cls
            /\ last' = [op |-> "set_maintenance_margin_rate", bot |-> b, arg |-> rate,
                        outcome |-> "ok"]
    /\ UNCHANGED <<EXCHANGE_INFO, fetches, remote, threads, dl>>

(***************************************************************************)
(* FuturesGridBot.liquidation_price                                        *)
(***************************************************************************)
\* A loop over every grid level, the final one (upper_price) included.
LoopRangeAll(bot) == Len(bot.grid_levels)

\* `for i in range(self.grid_number)`: the indices the loop visits.
LoopRange(bot) == bot.grid_number

\* total_position_size after the loop has visited levels[1..n].
RECURSIVE TotalPositionSize(_, _, _, _)
TotalPositionSize(levels, qty, price, n) ==
    IF n = 0 THEN 0
    ELSE TotalPositionSize(levels, qty, price, n - 1)
         + (IF levels[n] >= price THEN qty * levels[n] ELSE 0)

\* total_qty after the loop has visited levels[1..n].
RECURSIVE TotalQty(_, _, _, _)
TotalQty(levels, qty, price, n) ==
    IF n = 0 THEN 0
    ELSE TotalQty(levels, qty, price, n - 1)
         + (IF levels[n] >= price THEN qty ELSE 0)

\* unrealized_pnl after the loop has visited levels[1..n].
RECURSIVE UnrealizedPnl(_, _, _, _)
UnrealizedPnl(levels, qty, price, n) ==
    IF n = 0 THEN 0
    ELSE UnrealizedPnl(levels, qty, price, n - 1)
         - (IF levels[n] >= price THEN qty * (levels[n] - price) ELSE 0)

\* Divisions that answer a number (as IEEE inf would be) for a zero divisor.
DivisionNeverRaises(leverage, divisor) == FALSE

\* Python's `/` raises ZeroDivisionError for a zero divisor: `1 / self.leverage`,
\* and `... / (total_qty * multiplier)`, whose divisor is `divisor / leverage`.
DivisionRaises(leverage, divisor) == leverage = 0 \/ divisor = 0

\* liquidation_price(invested_amount, price) of a bot whose margin rate is
\* `rate` thousandths.  The record holds the returned pair (liquidation_price,
\* unrealized_pnl) and the locals total_qty and total_position_size.
\* With multiplier = (leverage - 1) / leverage, the returned price
\*   entry_price - (cross_margin - maintenance_margin) / (total_qty * multiplier)
\* is (entry_price * RateScale * divisor - margin * leverage) / (RateScale * divisor).
LiquidationPrice(bot, rate, invested_amount, price) ==
    LET total_position_size ==
            TotalPositionSize(bot.grid_levels, bot.qty_per_order, price, LoopRange(bot))
        total_qty == TotalQty(bot.grid_levels, bot.qty_per_order, price, LoopRange(bot))
        unrealized_pnl == UnrealizedPnl(bot.grid_levels, bot.qty_per_order, price, LoopRange(bot))
        \* (cross_margin - maintenance_margin) * RateScale
        margin == RateScale * (invested_amount + unrealized_pnl) - total_position_size * rate
        \* total_qty * multiplier * leverage
        divisor == total_qty * (bot.leverage - 1)
    IN  IF DivisionRaises(bot.leverage, divisor)
        THEN [outcome |-> "ZeroDivisionError",
              liquidation_price |-> Raised,
              unrealized_pnl |-> unrealized_pnl,
              total_qty |-> total_qty,
              total_position_size |-> total_position_size]
        ELSE [outcome |-> "ok",
              liquidation_price |-> Frac(bot.entry_price * RateScale * divisor
                                           - margin * bot.leverage,
                                         RateScale * divisor),
              unrealized_pnl |-> unrealized_pnl,
              total_qty |-> total_qty,
              total_position_size |-> total_position_size]

CallLiquidationPrice(b, invested_amount, price) ==
    /\ bots[b] # NoBot /\ bots[b].cls = "FuturesGridBot"
    /\ dl.pc = "idle"
    /\ last' = [op |-> "liquidation_price", bot |-> b, invested_amount |-> invested_amount,
                price |-> price,
                result |-> LiquidationPrice(bots[b], MaintenanceMarginRate(bots[b]),
                                            invested_amount, price)]
    /\ UNCHANGED <<EXCHANGE_INFO, fetches, remote, threads, bots, classMMR, dl>>

(***************************************************************************)
(* FuturesGridBot.deleverage_price_boundary, one loop iteration per step.  *)
(***************************************************************************)
\* grid_levels[-2]
SecondHighestLevel(bot) == bot.grid_levels[Len(bot.grid_levels) - 1]

DeleverageCall(b, invested_amount) ==
    /\ bots[b] # NoBot /\ bots[b].cls = "FuturesGridBot"
    /\ dl.pc = "idle"
    /\ dl' = [pc |-> "loop", bot |-> b, invested_amount |-> invested_amount,
              price |-> SecondHighestLevel(bots[b]), liquidation_price |-> Raised,
              at |-> "loop", result |-> 0]
    /\ last' = [op |-> "deleverage_price_boundary", bot |-> b]
    /\ UNCHANGED <<EXCHANGE_INFO, fetches, remote, threads, bots, classMMR>>

\* liquidation_price(invested_amount, price) as the running call evaluates it.
LiquidationAt(price) ==
    LiquidationPrice(bots[dl.bot], MaintenanceMarginRate(bots[dl.bot]), dl.invested_amount, price)

\* A decrement that leaves the price where it is.
SamePrice(price, tick) == price

\* price -= self._tick_size
NextCandidate(price, tick) == price - tick

\* best_deleverage_price = price + self._tick_size
BestDeleveragePrice(price, tick) == price + tick

\* `liquidation_price, _ = self.liquidation_price(invested_amount, price)`:
\* the local is bound, or the call ends with the exception raised there.
LoopEvaluate ==
    /\ dl.pc = "loop"
    /\ dl' = [dl EXCEPT !.liquidation_price = LiquidationAt(dl.price).liquidation_price,
                        !.pc = IF IsRaised(LiquidationAt(dl.price).liquidation_price)
                               THEN "raised" ELSE "test"]
    /\ UNCHANGED <<EXCHANGE_INFO, fetches, remote, threads, bots, classMMR, last>>

\* `if liquidation_price < price: price -= tick_size; continue`
LoopContinue ==
    /\ dl.pc = "test"
    /\ FLess(dl.liquidation_price, Frac(dl.price, 1))
    /\ dl' = [dl EXCEPT !.price = NextCandidate(dl.price, bots[dl.bot].tick_size),
                        !.pc = "loop"]
    /\ UNCHANGED <<EXCHANGE_INFO, fetches, remote, threads, bots, classMMR, last>>

\* `else: break`, then the boundary and the recomputation of unrealized_pnl at
\* it, which raises when liquidation_price does; else the boundary is returned.
LoopBreak ==
    /\ dl.pc = "test"
    /\ ~FLess(dl.liquidation_price, Frac(dl.price, 1))
    /\ dl' = [dl EXCEPT !.pc = IF LiquidationAt(BestDeleveragePrice(dl.price, bots[dl.bot].tick_size)).outcome = "ok"
                               THEN "returned" ELSE "raised",
                        !.at = "report",
                        !.result = BestDeleveragePrice(dl.price, bots[dl.bot].tick_size)]
    /\ UNCHANGED <<EXCHANGE_INFO, fetches, remote, threads, bots, classMMR, last>>

(***************************************************************************)
(* BinanceClient's classmethods, one bytecode-level step per action, for   *)
(* callers that may interleave.  get_exchange_info, get_tick_size and      *)
(* get_step_size all run: test the cache, request and store when it was    *)
(* empty, then read the cache.                                             *)
(***************************************************************************)
ClientMethods == {"get_exchange_info", "get_tick_size", "get_step_size"}

Enter(t, m) ==
    /\ threads[t].pc = "idle"
    /\ threads[t].calls < MaxCalls
    /\ threads' = [threads EXCEPT ![t] = [pc |-> "check", calls |-> @.calls + 1,
                                          method |-> m, got |-> NoInfo]]
    /\ UNCHANGED <<EXCHANGE_INFO, fetches, remote, bots, classMMR, last, dl>>

\* `if cls._EXCHANGE_INFO is None:`
Check(t) ==
    /\ threads[t].pc = "check"
    /\ threads' = [threads EXCEPT ![t].pc = IF EXCHANGE_INFO = NoInfo THEN "fetch" ELSE "read"]
    /\ UNCHANGED <<EXCHANGE_INFO, fetches, remote, bots, classMMR, last, dl>>

\* `cls._CLIENT.get_exchange_info()`: the remote request.
Fetch(t) ==
    /\ threads[t].pc = "fetch"
    /\ fetches' = fetches + 1
    /\ threads' = [threads EXCEPT ![t].pc = "assign", ![t].got = Snapshot(fetches + 1)]
    /\ UNCHANGED <<EXCHANGE_INFO, remote, bots, classMMR, last, dl>>

\* `cls._EXCHANGE_INFO = <the answer>`
Assign(t) ==
    /\ threads[t].pc = "assign"
    /\ EXCHANGE_INFO' = threads[t].got
    /\ threads' = [threads EXCEPT ![t].pc = "read"]
    /\ UNCHANGED <<fetches, remote, bots, classMMR, last, dl>>

\* What the method returns from the cache.
ReadResult(m) ==
    IF m = "get_exchange_info" THEN EXCHANGE_INFO
    ELSE IF m = "get_tick_size" THEN [cls |-> "float", value |-> EXCHANGE_INFO.tickSize]
    ELSE [cls |-> "float", value |-> EXCHANGE_INFO.stepSize]

Read(t) ==
    /\ threads[t].pc = "read"
    /\ last' = [op |-> threads[t].method, thread |-> t, result |-> ReadResult(threads[t].method)]
    /\ threads' = [threads EXCEPT ![t].pc = "idle"]
    /\ UNCHANGED <<EXCHANGE_INFO, fetches, remote, bots, classMMR, dl>>

(***************************************************************************)
(* Initial states: a fresh process, nothing cached, no bot constructed.    *)
(***************************************************************************)
InitThreads == [t \in ThreadIds |-> [pc |-> "idle", calls |-> 0, method |-> None, got |-> NoInfo]]

Init ==
    /\ EXCHANGE_INFO = NoInfo
    /\ fetches = 0
    /\ remote \in [tickSize : 1..MaxTick, stepSize : {1}]
    /\ threads = InitThreads
    /\ bots = [b \in BotIds |-> NoBot]
    /\ classMMR = DEFAULT_MMR
    /\ last = NoCall
    /\ dl = Idle

(***************************************************************************)
(* The spot grid bot: construction and order counting.                     *)
(***************************************************************************)
NextGrid ==
    \/ /\ bots["a"] = NoBot
       /\ \E n \in 1..MaxGrid, lower \in 1..MaxPrice, upper \in 1..MaxPrice, mode \in Modes :
            /\ lower < upper
            /\ ConstructGridBot("a", n, lower, lower, upper, 1, mode)
    \/ \E price \in 0..(MaxPrice + 1), align \in BOOLEAN : OrderCount("a", price, align)

SpecGrid == Init /\ [][NextGrid]_vars

(***************************************************************************)
(* One futures bot and its liquidation_price.                              *)
(***************************************************************************)
LeverageInputs == {0, MIN_LEVERAGE, 2, MAX_LEVERAGE + 1}

NextLiq ==
    \/ /\ bots["a"] = NoBot
       /\ \E n \in 1..MaxGrid, lower \in 1..MaxPrice, upper \in 1..MaxPrice,
             qty \in 1..MaxQty, lev \in {MIN_LEVERAGE, 2, MAX_LEVERAGE} :
            /\ lower < upper
            /\ ConstructFuturesGridBot("a", n, upper, lower, upper, qty, lev)
    \/ \E invested \in {0, MaxInvest}, price \in 0..(MaxPrice + 1) :
        CallLiquidationPrice("a", invested, price)

SpecLiq == Init /\ [][NextLiq]_vars

(***************************************************************************)
(* Two futures bots and their setters.                                     *)
(***************************************************************************)
SetterLeverages == {0, MIN_LEVERAGE, 2, MAX_LEVERAGE, MAX_LEVERAGE + 1}

SetterRates == {-1, 0, DEFAULT_MMR, 50}

NextFutures ==
    \/ \E b \in BotIds, n \in 1..MaxGrid, lev \in LeverageInputs :
        ConstructFuturesGridBot(b, n, 2, 1, MaxPrice, 1, lev)
    \/ \E b \in BotIds, lev \in SetterLeverages : SetLeverage(b, lev)
    \/ \E b \in BotIds, rate \in SetterRates : SetMaintenanceMarginRate(b, rate)

SpecFutures == Init /\ [][NextFutures]_vars

(***************************************************************************)
(* One futures bot and a deleverage_price_boundary call.  A call that has  *)
(* started keeps running: the loop's steps are weakly fair.                *)
(***************************************************************************)
NextDelev ==
    \/ /\ bots["a"] = NoBot
       /\ \E n \in 1..MaxGrid, entry \in 1..MaxPrice, lower \in 1..MaxPrice, upper \in 1..MaxPrice,
                qty \in 1..MaxQty, lev \in {MIN_LEVERAGE, 2, MAX_LEVERAGE} :
            /\ lower < upper
            /\ ConstructFuturesGridBot("a", n, entry, lower, upper, qty, lev)
    \/ \E invested \in 0..MaxInvest : DeleverageCall("a", invested)
    \/ LoopEvaluate
    \/ LoopContinue
    \/ LoopBreak

SpecDelev == Init /\ [][NextDelev]_vars

FairSpecDelev == SpecDelev /\ WF_vars(LoopEvaluate \/ LoopContinue \/ LoopBreak)

(***************************************************************************)
(* Callers of BinanceClient that interleave.                               *)
(***************************************************************************)
NextClient ==
    \/ \E t \in ThreadIds, m \in ClientMethods : Enter(t, m)
    \/ \E t \in ThreadIds : Check(t)
    \/ \E t \in ThreadIds : Fetch(t)
    \/ \E t \in ThreadIds : Assign(t)
    \/ \E t \in ThreadIds : Read(t)

SpecClient == Init /\ [][NextClient]_vars

(***************************************************************************)
(* The whole program: every operation of every component.  The properties  *)
(* below are checked under the component specifications above.             *)
(***************************************************************************)
Next == NextGrid \/ NextLiq \/ NextFutures \/ NextDelev \/ NextClient

Spec == Init /\ [][Next]_vars

(***************************************************************************)
(* Properties.                                                             *)
(***************************************************************************)
Levels(b) == bots[b].grid_levels

RECURSIVE SumOver(_, _)
SumOver(f, S) ==
    IF S = {} THEN 0
    ELSE LET i == CHOOSE i \in S : TRUE IN f[i] + SumOver(f, S \ {i})

EffectiveRate(b) == IF bots[b] = NoBot THEN classMMR ELSE MaintenanceMarginRate(bots[b])

Terminated == dl.pc \in {"returned", "raised"}

\* C1 (as claimed): every constructed grid has grid_number + 1 levels and is
\* strictly ascending, no two consecutive levels equal.
C1_StrictlyAscending ==
    \A b \in BotIds : bots[b] # NoBot =>
        /\ Len(Levels(b)) = bots[b].grid_number + 1
        /\ \A i \in 1..bots[b].grid_number : Levels(b)[i] < Levels(b)[i + 1]

\* C2 (as claimed): liquidation_price counts every grid level >= price, the
\* final level upper_price included: total_qty, total_position_size and
\* unrealized_pnl are qty_per_order times the count, the sum and minus the sum
\* of the distances to price of those levels.
C2_CountsEveryLevel ==
    last.op = "liquidation_price" =>
        LET L == Levels(last.bot)
            q == bots[last.bot].qty_per_order
            S == {i \in 1..Len(L) : L[i] >= last.price}
        IN  /\ last.result.total_qty = q * Cardinality(S)
            /\ last.result.total_position_size = q * SumOver(L, S)
            /\ last.result.unrealized_pnl = -q * (SumOver(L, S) - Cardinality(S) * last.price)

\* C2 (amended): liquidation_price counts every grid level >= price among the
\* first grid_number levels, that is all but the final level upper_price.
C2_CountsLevelsBelowTop ==
    last.op = "liquidation_price" =>
        LET L == Levels(last.bot)
            q == bots[last.bot].qty_per_order
            S == {i \in 1..bots[last.bot].grid_number : L[i] >= last.price}
        IN  /\ last.result.total_qty = q * Cardinality(S)
            /\ last.result.total_position_size = q * SumOver(L, S)
            /\ last.result.unrealized_pnl = -q * (SumOver(L, S) - Cardinality(S) * last.price)

\* C2 witness: a call at a price the final level is at or above, with some
\* lower level counted: the final level is the one left out.
C2_Witness ==
    /\ last.op = "liquidation_price"
    /\ last.price <= bots[last.bot].upper_price
    /\ last.result.total_qty > 0
    /\ last.result.total_qty =
         bots[last.bot].qty_per_order
           * (Cardinality({i \in 1..Len(Levels(last.bot)) : Levels(last.bot)[i] >= last.price}) - 1)

\* C3 (as claimed): the search of deleverage_price_boundary stays at or above
\* the bottom of the grid: no candidate price and no returned boundary is below
\* the lowest grid level (lower_price floored to the tick).
C3_BoundedBelow ==
    /\ dl.pc \in {"loop", "test"} => dl.price >= Levels(dl.bot)[1]
    /\ dl.pc = "returned" => dl.result >= Levels(dl.bot)[1]

\* C4: a deleverage_price_boundary call of a bot whose leverage is in
\* [1, 125] ends, by returning a boundary or by raising.
C4_Terminates ==
    (dl.pc \in {"loop", "test"} /\ bots["a"].leverage \in MIN_LEVERAGE..MAX_LEVERAGE) ~> Terminated

\* C4 witness: a call that returned after at least two decrements.
C4_Witness ==
    /\ dl.pc = "returned"
    /\ bots[dl.bot].leverage \in MIN_LEVERAGE..MAX_LEVERAGE
    /\ dl.result + bots[dl.bot].tick_size < SecondHighestLevel(bots[dl.bot])

\* C5: liquidation_price ends in an error and returns no pair whenever
\* leverage = 1 or no counted grid level is >= price.
C5_DegenerateInputsRaise ==
    last.op = "liquidation_price" =>
        LET bot == bots[last.bot]
            none == \A i \in 1..bot.grid_number : bot.grid_levels[i] < last.price
        IN  (bot.leverage = 1 \/ none) =>
                /\ last.result.outcome = "ZeroDivisionError"
                /\ IsRaised(last.result.liquidation_price)

\* C5 witness: a call on a bot of leverage 1 with some level counted.
C5_Witness ==
    /\ last.op = "liquidation_price"
    /\ bots[last.bot].leverage = 1
    /\ last.result.total_qty > 0
    /\ last.result.outcome = "ZeroDivisionError"

\* C6 (as claimed): every futures bot has a leverage in [1, 125] and a
\* non-negative maintenance margin rate, after construction and every setter.
C6_LeverageInRange ==
    \A b \in BotIds : bots[b] # NoBot =>
        /\ bots[b].leverage \in MIN_LEVERAGE..MAX_LEVERAGE
        /\ MaintenanceMarginRate(bots[b]) >= 0

\* C7: order_count answers the number of levels strictly below and strictly
\* above the price used; their sum is at most grid_number + 1, with equality
\* exactly when no level equals that price; with align the price used is a
\* grid level and the sum is at most grid_number.
C7_OrderCount ==
    last.op = "order_count" =>
        LET L == Levels(last.bot)
            n == bots[last.bot].grid_number
            r == last.result
            at == {i \in 1..Len(L) : L[i] = r.price}
        IN  /\ r.buy = Cardinality({i \in 1..Len(L) : L[i] < r.price})
            /\ r.sell = Cardinality({i \in 1..Len(L) : L[i] > r.price})
            /\ r.buy + r.sell <= n + 1
            /\ (r.buy + r.sell = n + 1) <=> (at = {})
            /\ last.align => (at # {} /\ r.buy + r.sell <= n)
            /\ ~last.align => r.price = last.arg

\* C7 witness: an aligned call whose price was snapped to a level with levels
\* on both sides.
C7_Witness ==
    /\ last.op = "order_count"
    /\ last.align
    /\ last.result.price # last.arg
    /\ last.result.buy > 0
    /\ last.result.sell > 0
    /\ last.result.buy + last.result.sell = bots[last.bot].grid_number

\* C8 (as claimed): the remote exchange info is requested at most once per
\* process and the cache, once populated, keeps the first answer, also when
\* callers interleave.
C8_FetchedOnce ==
    /\ fetches <= 1
    /\ EXCHANGE_INFO # NoInfo => EXCHANGE_INFO.fetch = 1

\* C9: a setter call changes at most the field it names on its own instance:
\* levels, tick and step size and the configuration stay, a rejected call
\* changes nothing, and the other instance's leverage and margin rate stay.
C9_SettersFrame ==
    [][\A b \in BotIds :
        (last'.op \in {"set_leverage", "set_maintenance_margin_rate"} /\ last'.bot = b) =>
        /\ \A c \in BotIds \ {b} : bots'[c] = bots[c] /\ EffectiveRate(c)' = EffectiveRate(c)
        /\ last'.op = "set_leverage" =>
              /\ bots'[b] = [bots[b] EXCEPT !.leverage = bots'[b].leverage]
              /\ EffectiveRate(b)' = EffectiveRate(b)
        /\ last'.op = "set_maintenance_margin_rate" =>
              bots'[b] = [bots[b] EXCEPT !.inst_mmr = bots'[b].inst_mmr]
        /\ last'.outcome = "ValueError" =>
              bots' = bots /\ EffectiveRate(b)' = EffectiveRate(b)
        /\ last'.outcome = "ok" =>
              IF last'.op = "set_leverage"
              THEN bots'[b].leverage = last'.arg
              ELSE EffectiveRate(b)' = last'.arg
        /\ UNCHANGED <<EXCHANGE_INFO, fetches, remote>>
    ]_vars

\* C9 witness: a rate was set on one instance while the other instance, which
\* has no rate of its own, keeps a different one.
C9_Witness ==
    /\ last.op = "set_maintenance_margin_rate"
    /\ last.outcome = "ok"
    /\ \E c \in BotIds \ {last.bot} :
          /\ bots[c] # NoBot
          /\ bots[c].inst_mmr = <<>>
          /\ EffectiveRate(c) # EffectiveRate(last.bot)

\* C10 (as claimed): a call whose loop stopped returns a boundary b, at most
\* grid_levels[-2], with liquidation_price(b) < b and
\* liquidation_price(b - tick_size) >= b - tick_size; also when the loop
\* stopped at its first candidate.
C10_BoundaryIsMinimum ==
    (Terminated /\ dl.at = "report") =>
        LET b == dl.result
            t == bots[dl.bot].tick_size
        IN  /\ dl.pc = "returned"
            /\ b <= SecondHighestLevel(bots[dl.bot])
            /\ LiquidationAt(b).outcome = "ok"
            /\ FLess(LiquidationAt(b).liquidation_price, Frac(b, 1))
            /\ LiquidationAt(b - t).outcome = "ok"
            /\ ~FLess(LiquidationAt(b - t).liquidation_price, Frac(b - t, 1))

====
